---------------------------- MODULE Spec2Model ----------------------------
(***************************************************************************)
(* A model of app/Helpers.py: the filtered sub-graph analysis helpers      *)
(* (statistics, kcore_decomposition, save_adjacency) acting on one shared  *)
(* graph object with a vertex filter and an edge filter, and the label     *)
(* resolution helpers (traverse_tree, get_indices) acting on a partition   *)
(* tree.                                                                   *)
(*                                                                         *)
(* Python strings are sequences of one-character strings, so that the      *)
(* text protocol with the peeling process and the label syntax are         *)
(* formatted and parsed the way the code formats and parses them.          *)
(***************************************************************************)
EXTENDS Integers, Sequences, FiniteSets, TLC

VARIABLES
    G,              \* the graph: [nv |-> number of vertices, edges |-> sequence of <<s, t>>]
    vfilt,          \* G.get_vertex_filter()[0]: [on |-> FALSE] is None, else the mask's true set
    efilt,          \* G.get_edge_filter()[0], likewise
    op,             \* the helper called last
    argV,           \* its vlist argument (index set)
    argE,           \* its elist argument (index set)
    proc,           \* how the external peeling process behaved in that call
    launched,       \* whether that call launched the external process (Popen)
    status,         \* "ok": the call returned; "raised": it raised an exception
    peel_partition, \* what kcore_decomposition returned: core number -> sequence of id strings
    strategy,       \* the peeling strategy statistics took: "exact", "fast" or "none"
    report,         \* what statistics returned
    adj,            \* the lines the call wrote to the adjacency file
    T,              \* the partition tree
    label,          \* the fully_qualified_label that is resolved
    node,           \* the node traverse_tree returned (0 when none)
    indices         \* <<vlist, elist>> get_indices returned last

vars == <<G, vfilt, efilt, op, argV, argE, proc, launched, status,
          peel_partition, strategy, report, adj, T, label, node, indices>>

treeVars == <<T, label, node, indices>>

---------------------------------------------------------------------------
(* Bounds of the model. *)

\* proper index lists range over the indices below MaxIdx (and the full list)
MaxIdx == 1

\* the peeling process writes up to MaxDiag diagnostic lines before its results
MaxDiag == 1

\* a label holds up to MaxTokens child tokens after the optional root token
MaxTokens == 2

---------------------------------------------------------------------------
(* Python str, int and list helpers. *)

\* F applied to the value of x (x is evaluated once)
Once(x, F(_)) == CHOOSE y \in {F(z) : z \in {x}} : TRUE

Digits == <<"0", "1", "2", "3", "4", "5", "6", "7", "8", "9">>

UpperAlpha == <<"A", "B", "C", "D", "E", "F", "G", "H", "I", "J", "K", "L", "M",
                "N", "O", "P", "Q", "R", "S", "T", "U", "V", "W", "X", "Y", "Z">>

LowerAlpha == <<"a", "b", "c", "d", "e", "f", "g", "h", "i", "j", "k", "l", "m",
                "n", "o", "p", "q", "r", "s", "t", "u", "v", "w", "x", "y", "z">>

IsSpace(c) == c \in {" ", "\n", "\t"}

IsDigit(c) == \E i \in 1..10 : Digits[i] = c

DigitVal(c) == (CHOOSE i \in 1..10 : Digits[i] = c) - 1

LowerChar(c) ==
    IF \E i \in 1..26 : UpperAlpha[i] = c
    THEN LowerAlpha[CHOOSE i \in 1..26 : UpperAlpha[i] = c]
    ELSE c

\* str.lower()
Lower(s) == Once(s, LAMBDA x : [i \in 1..Len(x) |-> LowerChar(x[i])])

\* '{}'.format(n) for a non-negative integer
RECURSIVE IntToStr(_)
IntToStr(n) ==
    IF n < 10 THEN <<Digits[n + 1]>>
    ELSE IntToStr(n \div 10) \o <<Digits[(n % 10) + 1]>>

\* str.strip(): the text between the first and the last non-space character
Strip(s) ==
    Once(s, LAMBDA x :
        Once({i \in 1..Len(x) : ~IsSpace(x[i])}, LAMBDA I :
            IF I = {} THEN <<>>
            ELSE SubSeq(x, CHOOSE i \in I : \A j \in I : i <= j,
                           CHOOSE i \in I : \A j \in I : i >= j)))

\* str.startswith(p)
StartsWith(s, p) == Len(s) >= Len(p) /\ SubSeq(s, 1, Len(p)) = p

\* str.split(sep) for a non-empty separator
RECURSIVE SplitAcc(_, _, _, _)
SplitAcc(s, sep, i, cur) ==
    IF i > Len(s) THEN <<cur>>
    ELSE IF i + Len(sep) - 1 <= Len(s) /\ SubSeq(s, i, i + Len(sep) - 1) = sep
         THEN <<cur>> \o Once(<<s, sep, i + Len(sep)>>,
                              LAMBDA a : SplitAcc(a[1], a[2], a[3], <<>>))
         ELSE Once(<<s, sep, i + 1, Append(cur, s[i])>>,
                   LAMBDA a : SplitAcc(a[1], a[2], a[3], a[4]))

Split(s, sep) == Once(<<s, sep>>, LAMBDA a : SplitAcc(a[1], a[2], 1, <<>>))

\* str.split() with no separator: runs of whitespace separate, no empty strings
RECURSIVE SplitWSAcc(_, _, _)
SplitWSAcc(s, i, cur) ==
    IF i > Len(s) THEN (IF cur = <<>> THEN <<>> ELSE <<cur>>)
    ELSE IF IsSpace(s[i])
         THEN (IF cur = <<>> THEN <<>> ELSE <<cur>>) \o
              Once(<<s, i + 1>>, LAMBDA a : SplitWSAcc(a[1], a[2], <<>>))
         ELSE Once(<<s, i + 1, Append(cur, s[i])>>,
                   LAMBDA a : SplitWSAcc(a[1], a[2], a[3]))

SplitWS(s) == Once(s, LAMBDA x : SplitWSAcc(x, 1, <<>>))

\* seq[-1]
Last(q) == Once(q, LAMBDA x : x[Len(x)])

RECURSIVE DigitsVal(_)
DigitsVal(s) ==
    IF s = <<>> THEN 0
    ELSE 10 * Once(SubSeq(s, 1, Len(s) - 1), LAMBDA x : DigitsVal(x))
         + DigitVal(s[Len(s)])

Unsigned(s) == IF s # <<>> /\ Head(s) \in {"+", "-"} THEN Tail(s) ELSE s

\* int(s) succeeds: optional surrounding whitespace, optional sign, digits
IntOk(s) ==
    Once(Unsigned(Strip(s)), LAMBDA u :
        u # <<>> /\ \A i \in 1..Len(u) : IsDigit(u[i]))

\* int(s) when it succeeds
IntVal(s) ==
    Once(Strip(s), LAMBDA t :
        IF Head(t) = "-" THEN 0 - DigitsVal(Tail(t))
        ELSE Once(Unsigned(t), LAMBDA u : DigitsVal(u)))

\* sep.join(parts)
RECURSIVE Join(_, _)
Join(parts, sep) ==
    IF parts = <<>> THEN <<>>
    ELSE IF Len(parts) = 1 THEN parts[1]
    ELSE parts[1] \o sep \o
         Once(<<Tail(parts), sep>>, LAMBDA a : Join(a[1], a[2]))

\* sorted(S) of a set of integers
SortedSeq(S) ==
    Once(S, LAMBDA X :
        [i \in 1..Cardinality(X) |->
            CHOOSE x \in X : Cardinality({y \in X : y < x}) = i - 1])

---------------------------------------------------------------------------
(* String literals of the code and of the text protocol. *)

S_root == <<"r", "o", "o", "t">>

S_Core == <<"C", "o", "r", "e">>

S_eq == <<" ", "=", " ">>

S_bar == <<"|">>

S_us == <<"_">>

S_sp == <<" ">>

S_nl == <<"\n">>

---------------------------------------------------------------------------
(* The graph object and its filters (graph_tool.Graph, undirected). *)

None == [on |-> FALSE, mask |-> {}]

Mask(S) == [on |-> TRUE, mask |-> S]

Vertices(g) == 0 .. (g.nv - 1)

EdgeIdx(g) == 0 .. (Len(g.edges) - 1)

\* G.vertices() under the vertex filter
VisibleV(g, vf) == IF vf.on THEN vf.mask \cap Vertices(g) ELSE Vertices(g)

\* indices of G.edges() under the filters: the edge and both endpoints pass
VisibleEIdx(g, vf, ef) ==
    Once(VisibleV(g, vf), LAMBDA V :
        {i \in EdgeIdx(g) :
            /\ (ef.on => i \in ef.mask)
            /\ g.edges[i + 1][1] \in V
            /\ g.edges[i + 1][2] \in V})

\* G.edges() under the filters, in edge index order
VisibleEdges(g, vf, ef) ==
    Once(SortedSeq(VisibleEIdx(g, vf, ef)), LAMBDA idx :
        [i \in 1..Len(idx) |-> g.edges[idx[i] + 1]])

\* v.out_neighbours() among the edges es, in edge order
Neighbours(v, es) ==
    Once(SortedSeq({i \in 1..Len(es) : es[i][1] = v \/ es[i][2] = v}), LAMBDA at :
        [j \in 1..Len(at) |->
            IF es[at[j]][1] = v THEN es[at[j]][2] ELSE es[at[j]][1]])

Degree(v, es) == Cardinality({i \in 1..Len(es) : es[i][1] = v \/ es[i][2] = v})

Max(a, b) == IF a >= b THEN a ELSE b

SetMin(S) == CHOOSE x \in S : \A y \in S : x <= y

\* degree of v counting only the edges whose other endpoint is still in R
DegreeIn(v, R, es) ==
    Cardinality({i \in 1..Len(es) :
        \/ es[i][1] = v /\ es[i][2] \in R
        \/ es[i][2] = v /\ es[i][1] \in R})

EmptyMap == [x \in {} |-> <<>>]

\* k-core decomposition by peeling: repeatedly remove a minimum-degree
\* vertex; its core number is the largest minimum degree seen so far.
RECURSIVE PeelRec(_, _, _, _)
PeelRec(R, es, k, acc) ==
    IF R = {} THEN acc
    ELSE Once([v \in R |-> DegreeIn(v, R, es)], LAMBDA deg :
           Once(SetMin({deg[v] : v \in R}), LAMBDA m :
             Once(CHOOSE u \in R : deg[u] = m, LAMBDA v :
               Once(<<R \ {v}, es, Max(k, m), (v :> Max(k, m)) @@ acc>>,
                    LAMBDA a : PeelRec(a[1], a[2], a[3], a[4])))))

\* gt.kcore_decomposition: vertex -> core number
CoreNumbers(V, es) ==
    Once(<<V, es>>, LAMBDA a : PeelRec(a[1], a[2], 0, EmptyMap))

---------------------------------------------------------------------------
(* The graphs the helpers are run on. *)

\* all pairs <<i, j>>, i < j < n, in lexicographic order
CliqueEdges(n) ==
    Once(SortedSeq({p[1] * n + p[2] :
                      p \in {q \in (0..(n - 1)) \X (0..(n - 1)) : q[1] < q[2]}}),
         LAMBDA key : [x \in 1..Len(key) |-> <<key[x] \div n, key[x] % n>>])

\* three isolated vertices
Iso3 == [nv |-> 3, edges |-> <<>>]

\* two vertices joined by one edge
Pair == [nv |-> 2, edges |-> <<<<0, 1>>>>]

\* one edge and one isolated vertex
EdgeIso == [nv |-> 3, edges |-> <<<<0, 1>>>>]

\* the path 0-1-2-3-4
Path5 == [nv |-> 5, edges |-> <<<<0, 1>>, <<1, 2>>, <<2, 3>>, <<3, 4>>>>]

\* the triangle 0,1,2 with the pendant vertex 3
TriPendant == [nv |-> 4, edges |-> <<<<0, 1>>, <<1, 2>>, <<0, 2>>, <<2, 3>>>>]

\* the clique on 0..8 with the pendant vertex 9
K9Pendant == [nv |-> 10, edges |-> CliqueEdges(9) \o <<<<8, 9>>>>]

Graphs == {Iso3, Pair, EdgeIso, Path5, TriPendant, K9Pendant}

\* the index lists a caller passes: the subsets of the indices below MaxIdx,
\* and the full list
IndexLists(all) == {S \in SUBSET (0..(MaxIdx - 1)) : S \subseteq all} \cup {all}

---------------------------------------------------------------------------
(* The external peeling process (./app/bin/graph_peeling.bin -t core -o   *)
(* core): reads "<source> <target>" lines, writes "Core_<k> = <ids>"      *)
(* lines, one per core number, after its diagnostic lines.                *)

S_diag == <<"#", " ", "l", "o", "a", "d", "\n">>

S_dumped == <<"C", "o", "r", "e", " ", "d", "u", "m", "p", "e", "d", "\n">>

\* how the process may behave: it works (writing b.diag diagnostic lines),
\* it exits while the caller still writes the edges, it exits after reading
\* them and before writing anything, or its output ends in a line that
\* begins with Core and is no result line
Behaviours ==
    {[kind |-> "ok", diag |-> n] : n \in 0..MaxDiag} \cup
    {[kind |-> k, diag |-> 0] : k \in {"dies_early", "dies_late", "garbled"}}

ReadEdge(line) ==
    Once(SplitWS(line), LAMBDA toks : <<IntVal(toks[1]), IntVal(toks[2])>>)

CoreLine(k, ids) ==
    S_Core \o S_us \o IntToStr(k) \o S_eq \o
    Join([i \in 1..Len(ids) |-> IntToStr(ids[i])], S_sp) \o S_nl

CoreLines(V, es) ==
    Once(CoreNumbers(V, es), LAMBDA core :
        Once(SortedSeq({core[v] : v \in V}), LAMBDA ks :
            [i \in 1..Len(ks) |->
                CoreLine(ks[i], SortedSeq({v \in V : core[v] = ks[i]}))]))

PeelingProcess(stdin, b) ==
    IF b.kind \in {"dies_early", "dies_late"} THEN <<>>
    ELSE Once([i \in 1..Len(stdin) |-> ReadEdge(stdin[i])], LAMBDA es :
           Once(CoreLines({es[i][1] : i \in 1..Len(es)} \cup
                          {es[i][2] : i \in 1..Len(es)}, es), LAMBDA lines :
             IF b.kind = "ok" THEN [i \in 1..b.diag |-> S_diag] \o lines
             ELSE lines \o <<S_dumped>>))

---------------------------------------------------------------------------
(* kcore_decomposition *)

\* the filters as they were before the call, whatever the index lists
KcoreFilters_restored(vf, ef, vlist, elist) == <<vf, ef>>

\* lines 92-102: the filters on G once the index lists are applied
KcoreFilters(vf, ef, vlist, elist) ==
    IF vlist # {} \/ elist # {}
    THEN <<Mask(vlist), Mask(elist)>>
    ELSE <<vf, ef>>

\* line 107
FormatEdge(e) == IntToStr(e[1]) \o S_sp \o IntToStr(e[2]) \o S_nl

\* lines 116-121: one line of the output; the dict with the line's bucket
\* set, the dict as it was for a line that is skipped, "raised" for a line
\* that begins with Core and does not parse
ReadLine(line, acc) ==
    IF ~StartsWith(line, S_Core) THEN [ok |-> TRUE, part |-> acc]
    ELSE Once(Split(line, S_eq), LAMBDA parts :
           IF Len(parts) # 2 THEN [ok |-> FALSE, part |-> EmptyMap]
           ELSE Once(Last(Split(parts[1], S_us)), LAMBDA peel :
                  IF ~IntOk(peel) THEN [ok |-> FALSE, part |-> EmptyMap]
                  ELSE [ok |-> TRUE,
                        part |-> (IntVal(peel) :> SplitWS(Strip(parts[2]))) @@ acc]))

\* lines 111-123: the read loop, to the end of the output
RECURSIVE ReadLoop(_, _, _)
ReadLoop(lines, i, acc) ==
    IF i > Len(lines) THEN [ok |-> TRUE, part |-> acc]
    ELSE Once(ReadLine(lines[i], acc), LAMBDA r :
           IF ~r.ok THEN r ELSE ReadLoop(lines, i + 1, r.part))

\* lines 104-123: launch the process, stream the visible edges, read the result
Peel(g, vf, ef, b) ==
    Once(VisibleEdges(g, vf, ef), LAMBDA es :
      Once([i \in 1..Len(es) |-> FormatEdge(es[i])], LAMBDA stdin :
        IF b.kind = "dies_early" /\ stdin # <<>>
        THEN [status |-> "raised", part |-> EmptyMap, launched |-> TRUE]
        ELSE Once(PeelingProcess(stdin, b), LAMBDA stdout :
               Once(ReadLoop(stdout, 1, EmptyMap), LAMBDA r :
                 [status |-> IF r.ok THEN "ok" ELSE "raised",
                  part |-> r.part, launched |-> TRUE]))))

NoReport ==
    [num_vertices |-> 0, num_edges |-> 0, num_cc |-> 0, num_singletons |-> 0,
     deg_bins |-> <<>>, deg_counts |-> <<>>, cc_sizes |-> <<>>, cc_counts |-> <<>>,
     peel_bins |-> <<>>, peel_counts |-> <<>>]

KcoreDecomposition(g, vf, ef, vlist, elist, b) ==
    Once(KcoreFilters(vf, ef, vlist, elist), LAMBDA f :
        [filters |-> f, result |-> Peel(g, f[1], f[2], b)])

kcore_decomposition(vlist, elist, b) ==
    \E r \in {KcoreDecomposition(G, vfilt, efilt, vlist, elist, b)} :
        /\ vfilt' = r.filters[1]
        /\ efilt' = r.filters[2]
        /\ op' = "kcore_decomposition"
        /\ argV' = vlist
        /\ argE' = elist
        /\ proc' = b.kind
        /\ launched' = r.result.launched
        /\ status' = r.result.status
        /\ peel_partition' = r.result.part
        /\ strategy' = "none"
        /\ report' = NoReport
        /\ adj' = <<>>
        /\ UNCHANGED <<G, treeVars>>

---------------------------------------------------------------------------
(* save_adjacency *)

\* lines 185-190: the filters on G once the index lists are applied
SaveFilters(vlist, elist) == <<Mask(vlist), Mask(elist)>>

\* lines 197-199: the line of vertex v
AdjacencyLine(v, neighbours) ==
    IntToStr(v) \o S_sp \o
    Join([i \in 1..Len(neighbours) |-> IntToStr(neighbours[i])], S_sp) \o S_nl

\* lines 192-200: the lines written, one per visible vertex
AdjacencyLines(g, vf, ef) ==
    Once(<<SortedSeq(VisibleV(g, vf)), VisibleEdges(g, vf, ef)>>, LAMBDA a :
        [i \in 1..Len(a[1]) |-> AdjacencyLine(a[1][i], Neighbours(a[1][i], a[2]))])

save_adjacency(vlist, elist) ==
    \E f \in {SaveFilters(vlist, elist)} :
        /\ vfilt' = f[1]
        /\ efilt' = f[2]
        /\ op' = "save_adjacency"
        /\ argV' = vlist
        /\ argE' = elist
        /\ proc' = "none"
        /\ launched' = FALSE
        /\ status' = "ok"
        /\ peel_partition' = EmptyMap
        /\ strategy' = "none"
        /\ report' = NoReport
        /\ adj' = AdjacencyLines(G, f[1], f[2])
        /\ UNCHANGED <<G, treeVars>>

---------------------------------------------------------------------------
(* statistics *)

\* the branches of line 49 taken the other way round
UseExact_inverted(vf, ef) == ~(vf.on \/ ef.on)

\* line 49: whether the exact strategy is taken (a property map object is
\* true, None is false)
UseExact(vf, ef) == vf.on \/ ef.on

RECURSIVE Reach(_, _)
Reach(S, es) ==
    Once(S \cup {es[i][2] : i \in {j \in 1..Len(es) : es[j][1] \in S}}
           \cup {es[i][1] : i \in {j \in 1..Len(es) : es[j][2] \in S}}, LAMBDA N :
        IF N = S THEN S ELSE Reach(N, es))

\* gt.label_components: the connected components of the visible graph
RECURSIVE Components(_, _)
Components(V, es) ==
    IF V = {} THEN {}
    ELSE Once(Reach({SetMin(V)}, es), LAMBDA c :
           {c} \cup Once(V \ c, LAMBDA rest : Components(rest, es)))

\* the initial size of the table of a CPython 2 dict
PyDictMinSize == 8

\* the slot a new key takes in the table of a CPython 2 dict: i is the
\* probe, first the hash
RECURSIVE Probe(_, _, _)
Probe(table, i, perturb) ==
    IF table[i % PyDictMinSize] = -1 THEN i % PyDictMinSize
    ELSE Once(<<5 * i + perturb + 1, perturb \div 32>>,
              LAMBDA a : Probe(table, a[1], a[2]))

RECURSIVE DictInsertAll(_, _)
DictInsertAll(table, keys) ==
    IF keys = <<>> THEN table
    ELSE Once(<<IF \E i \in DOMAIN table : table[i] = Head(keys) THEN table
                ELSE [table EXCEPT ![Probe(table, Head(keys) % PyDictMinSize,
                                           Head(keys))] = Head(keys)],
                Tail(keys)>>,
              LAMBDA a : DictInsertAll(a[1], a[2]))

\* Counter(values).items(): the keys in the order a CPython 2 dict of
\* small non-negative integers lists them (at most five distinct keys)
CounterKeys(values) ==
    Once(DictInsertAll([i \in 0..(PyDictMinSize - 1) |-> -1], values), LAMBDA table :
      Once(SortedSeq({i \in DOMAIN table : table[i] # -1}), LAMBDA slots :
        [i \in 1..Len(slots) |-> table[slots[i]]]))

\* lines 27-31 and 57-59: the fast strategy
FastPeel(g, vf) ==
    Once(<<CoreNumbers(Vertices(g), g.edges), SortedSeq(VisibleV(g, vf))>>, LAMBDA a :
      Once([i \in 1..Len(a[2]) |-> a[1][a[2][i]]], LAMBDA values :
        Once(CounterKeys(values), LAMBDA bins :
          [status |-> IF bins = <<>> THEN "raised" ELSE "ok",
           peel_bins |-> bins,
           peel_counts |-> [i \in 1..Len(bins) |->
                Cardinality({j \in 1..Len(values) : values[j] = bins[i]})],
           launched |-> FALSE])))

\* lines 51-53: the exact strategy
ExactPeel(g, vf, ef, b) ==
    Once(Peel(g, vf, ef, b), LAMBDA r :
      Once(SortedSeq(DOMAIN r.part), LAMBDA bins :
        [status |-> r.status,
         peel_bins |-> bins,
         peel_counts |-> [i \in 1..Len(bins) |-> Len(r.part[bins[i]])],
         launched |-> r.launched]))

\* lines 33-47: the degree histogram and the connected components
Histograms(V, es) ==
    Once(SortedSeq({Degree(v, es) : v \in V}), LAMBDA degs :
      Once([i \in 1..Len(degs) |-> Cardinality({v \in V : Degree(v, es) = degs[i]})],
           LAMBDA cnts :
        Once(Components(V, es), LAMBDA cc :
          Once(SortedSeq({Cardinality(c) : c \in cc}), LAMBDA szs :
            [num_vertices |-> Cardinality(V),
             num_edges |-> Len(es),
             num_cc |-> Cardinality(cc),
             num_singletons |-> IF degs # <<>> /\ degs[1] = 0 THEN cnts[1] ELSE 0,
             deg_bins |-> degs,
             deg_counts |-> cnts,
             cc_sizes |-> szs,
             cc_counts |-> [i \in 1..Len(szs) |->
                   Cardinality({c \in cc : Cardinality(c) = szs[i]})]]))))

\* lines 27-75: deg_bins[0] raises when no vertex is visible; else the
\* strategy is chosen and its histogram joins the report
Statistics(g, vf, ef, b) ==
    Once(Histograms(VisibleV(g, vf), VisibleEdges(g, vf, ef)), LAMBDA h :
      IF h.deg_bins = <<>>
      THEN [status |-> "raised", strategy |-> "none", launched |-> FALSE,
            report |-> NoReport]
      ELSE Once(IF UseExact(vf, ef) THEN ExactPeel(g, vf, ef, b) ELSE FastPeel(g, vf),
                LAMBDA peel :
             [status |-> peel.status,
              strategy |-> IF UseExact(vf, ef) THEN "exact" ELSE "fast",
              launched |-> peel.launched,
              report |->
                IF peel.status = "raised" THEN NoReport
                ELSE [num_vertices |-> h.num_vertices,
                      num_edges |-> h.num_edges,
                      num_cc |-> h.num_cc,
                      num_singletons |-> h.num_singletons,
                      deg_bins |-> h.deg_bins,
                      deg_counts |-> h.deg_counts,
                      cc_sizes |-> h.cc_sizes,
                      cc_counts |-> h.cc_counts,
                      peel_bins |-> peel.peel_bins,
                      peel_counts |-> peel.peel_counts]]))

statistics(b) ==
    \E r \in {Statistics(G, vfilt, efilt, b)} :
        /\ op' = "statistics"
        /\ argV' = {}
        /\ argE' = {}
        /\ proc' = IF r.launched THEN b.kind ELSE "none"
        /\ launched' = r.launched
        /\ status' = r.status
        /\ peel_partition' = EmptyMap
        /\ strategy' = r.strategy
        /\ report' = r.report
        /\ adj' = <<>>
        /\ UNCHANGED <<G, vfilt, efilt, treeVars>>

---------------------------------------------------------------------------
(* The partition tree (HierarchicalPartitioningTree.PartitionTree): nodes  *)
(* are numbered; a node owns vertex_indices and edge_indices (a leaf) or   *)
(* children (an internal node).                                            *)

Leaf(vs, es) == [vertex_indices |-> vs, edge_indices |-> es, children |-> <<>>]

Internal(cs) == [vertex_indices |-> <<>>, edge_indices |-> <<>>, children |-> cs]

\* the root is a leaf
LeafTree == [root |-> 1, nodes |-> <<Leaf(<<0, 1, 2>>, <<0, 1>>)>>]

\* the root has two leaves
FlatTree ==
    [root |-> 1,
     nodes |-> <<Internal(<<2, 3>>), Leaf(<<0, 1>>, <<0>>), Leaf(<<2>>, <<>>)>>]

\* the root has an internal child (two leaves) and a leaf
DeepTree ==
    [root |-> 1,
     nodes |-> <<Internal(<<2, 3>>), Internal(<<4, 5>>), Leaf(<<4>>, <<3>>),
                 Leaf(<<0, 1>>, <<0>>), Leaf(<<2, 3>>, <<1, 2>>)>>]

Trees == {LeafTree, FlatTree, DeepTree}

\* PartitionTree.collect_indices: the indices of the leaf descendants of
\* node n, depth first, children in their stored order
RECURSIVE collect_indices(_, _)
collect_indices(t, n) ==
    IF t.nodes[n].children = <<>>
    THEN <<t.nodes[n].vertex_indices, t.nodes[n].edge_indices>>
    ELSE Once([i \in 1..Len(t.nodes[n].children) |->
                  collect_indices(t, t.nodes[n].children[i])], LAMBDA parts :
           <<Join([i \in 1..Len(parts) |-> parts[i][1]], <<>>),
             Join([i \in 1..Len(parts) |-> parts[i][2]], <<>>)>>)

\* the tokens of the labels tried
Tok(suffix) == <<"c", "_">> \o suffix

Tokens == {Tok(<<"0">>), Tok(<<"1">>), Tok(<<"2">>), Tok(<<"-", "1">>), Tok(<<"x">>)}

RootTokens == {S_root, <<"R", "O", "O", "T">>, <<"R", "o", "o", "t">>}

TokenSeqs == UNION {[1..n -> Tokens] : n \in 0..MaxTokens}

\* the labels tried: an optional root token, then up to MaxTokens tokens
Labels ==
    {Join(ts, S_bar) : ts \in TokenSeqs} \cup
    {Join(<<r>> \o ts, S_bar) : r \in RootTokens, ts \in TokenSeqs}

\* list[idx] of a Python list: the indices -len .. len-1 exist
PyIndexOk(list, idx) == 0 - Len(list) <= idx /\ idx < Len(list)

PyIndex(list, idx) == IF idx >= 0 THEN list[idx + 1] ELSE list[Len(list) + idx + 1]

\* lines 144-145: one step of the walk, from node n by the token sub_id
Step(t, n, sub_id) ==
    Once(Last(Split(sub_id, S_us)), LAMBDA txt :
        IF ~IntOk(txt) THEN [ok |-> FALSE, node |-> 0]
        ELSE Once(IntVal(txt), LAMBDA idx :
               IF ~PyIndexOk(t.nodes[n].children, idx) THEN [ok |-> FALSE, node |-> 0]
               ELSE [ok |-> TRUE, node |-> PyIndex(t.nodes[n].children, idx)]))

\* lines 142-146: the walk down the children
RECURSIVE Walk(_, _, _, _)
Walk(t, n, sub_ids, s) ==
    IF s > Len(sub_ids) THEN [ok |-> TRUE, node |-> n]
    ELSE Once(Step(t, n, sub_ids[s]), LAMBDA r :
           IF ~r.ok THEN r ELSE Walk(t, r.node, sub_ids, s + 1))

\* lines 137-146
TraverseTree(t, l) ==
    IF Lower(l) = S_root THEN [ok |-> TRUE, node |-> t.root]
    ELSE Once(Split(l, S_bar), LAMBDA sub_ids :
           Once(IF Lower(sub_ids[1]) = S_root THEN Tail(sub_ids) ELSE sub_ids,
                LAMBDA rest : Walk(t, t.root, rest, 1)))

\* the node's own lists, whether it is a leaf or not
NodeIndices_own(t, n) == <<t.nodes[n].vertex_indices, t.nodes[n].edge_indices>>

\* lines 162-167: the node's own lists, or those collected below it
NodeIndices(t, n) ==
    IF Len(t.nodes[n].vertex_indices) # 0
    THEN <<t.nodes[n].vertex_indices, t.nodes[n].edge_indices>>
    ELSE collect_indices(t, n)

\* lines 161-167
GetIndices(t, l) ==
    Once(TraverseTree(t, l), LAMBDA r :
        IF ~r.ok THEN [ok |-> FALSE, node |-> 0, indices |-> <<<<>>, <<>>>>]
        ELSE [ok |-> TRUE, node |-> r.node, indices |-> NodeIndices(t, r.node)])

traverse_tree ==
    \E r \in {TraverseTree(T, label)} :
        /\ op' = "traverse_tree"
        /\ status' = IF r.ok THEN "ok" ELSE "raised"
        /\ node' = r.node
        /\ UNCHANGED <<G, vfilt, efilt, argV, argE, proc, launched,
                       peel_partition, strategy, report, adj, T, label, indices>>

get_indices ==
    \E r \in {GetIndices(T, label)} :
        /\ op' = "get_indices"
        /\ status' = IF r.ok THEN "ok" ELSE "raised"
        /\ node' = r.node
        /\ indices' = r.indices
        /\ UNCHANGED <<G, vfilt, efilt, argV, argE, proc, launched,
                       peel_partition, strategy, report, adj, T, label>>

---------------------------------------------------------------------------
(* The specifications. *)

GraphIdle ==
    /\ vfilt = None
    /\ efilt = None
    /\ op = "init"
    /\ argV = {}
    /\ argE = {}
    /\ proc = "none"
    /\ launched = FALSE
    /\ status = "none"
    /\ peel_partition = EmptyMap
    /\ strategy = "none"
    /\ report = NoReport
    /\ adj = <<>>

\* a graph is loaded, unfiltered; the helpers are called on it in any order
Init ==
    /\ G \in Graphs
    /\ GraphIdle
    /\ T = LeafTree
    /\ label = S_root
    /\ node = 0
    /\ indices = <<<<>>, <<>>>>

Next ==
    \/ \E vlist \in IndexLists(Vertices(G)), elist \in IndexLists(EdgeIdx(G)),
          b \in Behaviours : kcore_decomposition(vlist, elist, b)
    \/ \E vlist \in IndexLists(Vertices(G)), elist \in IndexLists(EdgeIdx(G)) :
          save_adjacency(vlist, elist)
    \/ \E b \in Behaviours : statistics(b)

Spec == Init /\ [][Next]_vars

\* a partition tree is built and a label is given; the label is resolved
\* on it any number of times
TreeInit ==
    /\ G = Pair
    /\ GraphIdle
    /\ T \in Trees
    /\ label \in Labels
    /\ node = 0
    /\ indices = <<<<>>, <<>>>>

TreeNext ==
    \/ traverse_tree
    \/ get_indices

TreeSpec == TreeInit /\ [][TreeNext]_vars

---------------------------------------------------------------------------
(* The claims. *)

ActiveV == VisibleV(G, vfilt)

ActiveEdges == VisibleEdges(G, vfilt, efilt)

Unfiltered == ~vfilt.on /\ ~efilt.on

\* the vertex identifiers of bucket k of the mapping kcore_decomposition returned
Bucket(k) == {IntVal(peel_partition[k][i]) : i \in 1..Len(peel_partition[k])}

RECURSIVE SumSeq(_)
SumSeq(q) == IF q = <<>> THEN 0 ELSE Head(q) + SumSeq(Tail(q))

\* C1: the buckets the exact strategy returns (the process having worked)
\* hold every visible vertex exactly once and no other vertex, and the
\* counts of the fast strategy add up to the number of visible vertices.
C1_PeelingIsPartition ==
    /\ (op = "kcore_decomposition" /\ status = "ok" /\ proc = "ok") =>
          /\ \A v \in ActiveV :
                Cardinality({k \in DOMAIN peel_partition : v \in Bucket(k)}) = 1
          /\ \A k \in DOMAIN peel_partition :
                /\ Bucket(k) \subseteq ActiveV
                /\ Cardinality(Bucket(k)) = Len(peel_partition[k])
    /\ (op = "statistics" /\ status = "ok" /\ strategy = "fast") =>
          /\ \A i, j \in 1..Len(report.peel_bins) :
                i # j => report.peel_bins[i] # report.peel_bins[j]
          /\ SumSeq(report.peel_counts) = Cardinality(ActiveV)

\* the library's whole-graph decomposition grouped by core number
FastPartition ==
    LET kcore == CoreNumbers(Vertices(G), G.edges)
    IN  [k \in {kcore[v] : v \in Vertices(G)} |-> {v \in Vertices(G) : kcore[v] = k}]

\* C2: with no filter active, the mapping the exact strategy returns (the
\* process having worked) is the library's decomposition grouped by core
\* number.
C2_StrategiesAgree ==
    (op = "kcore_decomposition" /\ status = "ok" /\ proc = "ok" /\ Unfiltered) =>
        [k \in DOMAIN peel_partition |-> Bucket(k)] = FastPartition

Called == {"kcore_decomposition", "save_adjacency", "statistics"}

LabelIndices(l) ==
    LET sub_ids == Split(l, S_bar)
        rest    == IF Lower(sub_ids[1]) = S_root THEN Tail(sub_ids) ELSE sub_ids
    IN  [s \in 1..Len(rest) |->
            IF IntOk(Last(Split(rest[s], S_us)))
            THEN IntVal(Last(Split(rest[s], S_us))) ELSE -1]

\* whether every index is an existing zero-based child index on the way down
RECURSIVE ExistingPath(_, _, _)
ExistingPath(t, n, idxs) ==
    \/ idxs = <<>>
    \/ /\ 0 <= Head(idxs)
       /\ Head(idxs) < Len(t.nodes[n].children)
       /\ ExistingPath(t, t.nodes[n].children[Head(idxs) + 1], Tail(idxs))

\* C5: a label with a token whose integer is no existing zero-based child
\* index of the node reached so far is not resolved: the call raises.
C5_InvalidLabelRejected ==
    (op \in {"traverse_tree", "get_indices"}
       /\ ~ExistingPath(T, T.root, LabelIndices(label))) => status = "raised"

\* C6: when the process exits before writing anything, or writes a line
\* that begins with Core and does not parse, kcore_decomposition raises.
C6_ProcessFailureRaises ==
    (op = "kcore_decomposition" /\ proc \in {"dies_early", "dies_late", "garbled"})
        => status = "raised"

\* C7: a call of kcore_decomposition or of save_adjacency with both index
\* lists empty leaves the filters of G as they were (none installed).
C7_EmptyListsNoFilter ==
    [][(op' \in {"kcore_decomposition", "save_adjacency"}
          /\ argV' = {} /\ argE' = {}) => (vfilt' = vfilt /\ efilt' = efilt)]_vars

RootIsLeaf == T.nodes[T.root].children = <<>>

\* C8: a label that is "root" in any letter case resolves to the root:
\* get_indices returns the root's own lists when it is a leaf, the lists
\* of its leaf descendants otherwise; resolving again returns the same
\* lists, and the tree is as it was.
C8_RootResolves ==
    [][/\ T' = T
       /\ (op' = "traverse_tree" /\ Lower(label') = S_root) =>
            (status' = "ok" /\ node' = T.root)
       /\ (op' = "get_indices" /\ Lower(label') = S_root) =>
            /\ status' = "ok"
            /\ node' = T.root
            /\ indices' = IF RootIsLeaf
                          THEN <<T.nodes[T.root].vertex_indices,
                                 T.nodes[T.root].edge_indices>>
                          ELSE collect_indices(T, T.root)
            /\ indices # <<<<>>, <<>>>> => indices' = indices]_vars

\* "ROOT" or "Root" resolved on a tree whose root is internal
C8_RootOfInternal ==
    /\ op = "get_indices"
    /\ Lower(label) = S_root /\ label # S_root
    /\ ~RootIsLeaf
    /\ status = "ok"
    /\ Len(indices[1]) > 1

\* C9: with no vertex visible, kcore_decomposition returns the empty
\* mapping without launching the process, and statistics returns a report
\* with empty peel_bins and peel_counts.
C9_NoVertexSpecialCased ==
    /\ (op = "kcore_decomposition" /\ ActiveV = {}) =>
          (~launched /\ status = "ok" /\ peel_partition = EmptyMap)
    /\ (op = "statistics" /\ ActiveV = {}) =>
          (~launched /\ status = "ok" /\ report.peel_bins = <<>>
             /\ report.peel_counts = <<>>)

\* C10: in the report, peel_bins ascends strictly and peel_counts[i] is
\* the number of visible vertices whose core number is peel_bins[i].
C10_HistogramSorted ==
    (op = "statistics" /\ status = "ok") =>
        /\ \A i \in 1..(Len(report.peel_bins) - 1) :
              report.peel_bins[i] < report.peel_bins[i + 1]
        /\ Len(report.peel_counts) = Len(report.peel_bins)
        /\ \A i \in 1..Len(report.peel_bins) :
              report.peel_counts[i] =
                Cardinality({v \in ActiveV :
                    CoreNumbers(ActiveV, ActiveEdges)[v] = report.peel_bins[i]})

===========================================================================
